---- MODULE Spec2Model ----
(***************************************************************************)
(* Model of the gnosis-metadata service (src/app.py): the X-API-KEY gate   *)
(* run before every request, the POST /api/metadata/extract handler with   *)
(* its extraction engine, and the GET /api/content/<id>/metadata handler.  *)
(*                                                                         *)
(* Strings are sequences of lexemes.  A lexeme is one character, or a run  *)
(* of characters that the code never splits ("FENCE", "json", a word).  The  *)
(* characters of a request text are the numbers 1, 2, 3, ... so that every *)
(* position of the text is told apart from every other.                    *)
(***************************************************************************)
EXTENDS Integers, Sequences, FiniteSets, TLC

\* ------------------------------------------------------------------------
\* Bounds of the model
\* ------------------------------------------------------------------------

\* Content ids the clients ask for and the ingestion process creates.
MaxId == 1

\* The longest request text is TextLimit + MaxOver characters.
MaxOver == 2

\* ------------------------------------------------------------------------
\* JSON values (request.json, json.loads results, response bodies)
\* ------------------------------------------------------------------------

\* Python None where a JSON value is expected: an empty body, a missing key.
JNone == [t |-> "none", v |-> <<>>]

JNull == [t |-> "null", v |-> <<>>]

JNum(n) == [t |-> "num", v |-> <<n>>]

JStr(s) == [t |-> "str", v |-> s]

JList(items) == [t |-> "list", v |-> items]

\* f is a function from keys (strings, as sequences of lexemes) to JSON values.
JObj(f) == [t |-> "obj", v |-> f]

EmptyFcn == [k \in {} |-> JNull]

Min(a, b) == IF a <= b THEN a ELSE b

Range(s) == {s[i] : i \in DOMAIN s}

\* Python truthiness: `not x` is TRUE of None, 0, "", [] and {}.
Falsy(x) ==
    CASE x.t \in {"none", "null"} -> TRUE
      [] x.t = "num" -> x.v[1] = 0
      [] x.t \in {"str", "list"} -> Len(x.v) = 0
      [] x.t = "obj" -> DOMAIN x.v = {}
      [] OTHER -> FALSE

\* A string of one word.
Word(w) == <<w>>

\* Python `key in x`: [exc |-> TRUE] is the TypeError of a number operand.
\* A dict tests its keys, a list its items, a string its substrings.
PyIn(key, x) ==
    CASE x.t = "obj" -> [exc |-> FALSE, val |-> key \in DOMAIN x.v]
      [] x.t = "list" ->
            [exc |-> FALSE,
             val |-> \E i \in DOMAIN x.v : x.v[i].t = "str" /\ x.v[i].v = key]
      [] x.t = "str" ->
            [exc |-> FALSE,
             val |-> \E i \in 1..(Len(x.v) - Len(key) + 1) :
                        SubSeq(x.v, i, i + Len(key) - 1) = key]
      [] OTHER -> [exc |-> TRUE, val |-> FALSE]

\* Python `x[key]` with a string key: only a dict that holds the key answers,
\* a missing key is a KeyError, a list or a string a TypeError.
PyItem(x, key) ==
    IF x.t = "obj" /\ key \in DOMAIN x.v
    THEN [exc |-> FALSE, val |-> x.v[key]]
    ELSE [exc |-> TRUE, val |-> JNone]

\* Python `x.get(key)` of a dict: None when the key is missing.
PyGet(x, key) == IF key \in DOMAIN x.v THEN x.v[key] ELSE JNone

\* ------------------------------------------------------------------------
\* The extraction engine: extract_metadata_from_text
\* ------------------------------------------------------------------------

\* The number of characters of `text` that go into the prompt.
TextLimit == 3000

\* Python `text[:3000]`: the first 3000 items of a string or of a list; any
\* other value cannot be sliced and raises a TypeError.
\* (A slice that forgets the limit; used to test the truncation claim.)
SliceFull(text) ==
    IF text.t \in {"str", "list"}
    THEN [exc |-> FALSE, val |-> text]
    ELSE [exc |-> TRUE, val |-> JNone]

SliceText(text) ==
    IF text.t \in {"str", "list"}
    THEN [exc |-> FALSE,
          val |-> [t |-> text.t, v |-> SubSeq(text.v, 1, Min(Len(text.v), TextLimit))]]
    ELSE [exc |-> TRUE, val |-> JNone]

NoPrompt == [text |-> JNone, file_name |-> JNone, with_context |-> FALSE, context |-> JNone]

\* The user message: the fixed instruction with the file name, the additional
\* context when it is truthy, and the sliced text filled in.
BuildPrompt(text, file_name, additional_info) ==
    LET sl == SliceText(text)
    IN  [exc |-> sl.exc,
         val |-> IF sl.exc THEN NoPrompt
                 ELSE [text |-> sl.val,
                       file_name |-> file_name,
                       with_context |-> ~Falsy(additional_info),
                       context |-> IF Falsy(additional_info) THEN JNone ELSE additional_info]]

\* A mark that is no lexeme.
Removed == "<removed>"

NotRemoved(x) == x # Removed

\* Python s.replace(old, ""): every occurrence of old is removed.  No
\* occurrence of a pattern used here overlaps another one, so the
\* occurrences found from left to right are all the occurrences: the items
\* of each are marked, and the marked items dropped.
Remove(s, old) ==
    LET L == Len(old)
        At(j) == j >= 1 /\ j + L - 1 <= Len(s) /\ SubSeq(s, j, j + L - 1) = old
        Marked == [i \in 1..Len(s) |->
                      IF \E j \in (i - L + 1)..i : At(j) THEN Removed ELSE s[i]]
    IN  SelectSeq(Marked, NotRemoved)

\* The lexeme "FENCE" is the code fence, three backticks.
\* The two replace calls on response_text: every fence opener with its json
\* tag is removed, then every fence that is left, wherever it stands.
StripFences(s) == Remove(Remove(s, <<"FENCE", "json">>), <<"FENCE">>)

UnknownMetadata ==
    JObj([k \in {Word("title"), Word("author"), Word("publication_date"),
                 Word("publisher"), Word("source_language"), Word("genre"),
                 Word("topic")} |-> JStr(Word("Unknown"))])

\* json.loads on a string of lexemes.  "Q" is the double quote, "ws" white
\* space, "null", "7" and "0" literals, the brackets, the comma and the colon
\* punctuation; every other lexeme is text that may stand inside a string
\* only.  A parse result is [val, ok].
ParseFail == [val |-> JNone, ok |-> FALSE]

Parsed(val) == [val |-> val, ok |-> TRUE]

\* s[i] stands after the opening quote of a string that is not closed yet.
Quoted(s, i) == Cardinality({j \in 1..(i - 1) : s[j] = "Q"}) % 2 = 1

\* The lexemes as the parser reads them: what stands inside a string is text.
Lexemes(s) == [i \in 1..Len(s) |-> IF s[i] # "Q" /\ Quoted(s, i) THEN "text" ELSE s[i]]

\* The brackets opened from a on that are still open at i.
Level(x, a, i) ==
    Cardinality({j \in a..(i - 1) : x[j] \in {"{", "["}})
    - Cardinality({j \in a..(i - 1) : x[j] \in {"}", "]"}})

First(S) == CHOOSE m \in S : \A n \in S : m <= n

Last(S) == CHOOSE m \in S : \A n \in S : m >= n

\* The places in a..b of the lexeme c outside every bracket opened in a..b.
Separators(x, c, a, b) == {i \in a..b : x[i] = c /\ Level(x, a, i) = 0}

\* The regions <<first, last>> the commas cut a..b into, from left to right.
Regions(x, a, b) ==
    LET cuts == {a - 1, b + 1} \cup Separators(x, ",", a, b)
        Nth(k) == CHOOSE c \in cuts : Cardinality({d \in cuts : d < c}) = k - 1
    IN  [k \in 1..(Cardinality(cuts) - 1) |-> <<Nth(k) + 1, Nth(k + 1) - 1>>]

\* The value that s[a0..b0] is the text of, white space around it allowed:
\* a string, a literal, an object (its members cut at the commas, each at
\* its first colon; a key read twice keeps its last value), or a list.
RECURSIVE ParseValue(_, _, _, _)
ParseValue(s, x, a0, b0) ==
    LET ink == {i \in a0..b0 : x[i] # "ws"}
        a == First(ink)
        b == Last(ink)
        blank == \A i \in (a + 1)..(b - 1) : x[i] = "ws"
        regions == Regions(x, a + 1, b - 1)
        colons(k) == Separators(x, ":", regions[k][1], regions[k][2])
        items == [k \in DOMAIN regions |->
                    ParseValue(s, x, regions[k][1], regions[k][2])]
        keys == [k \in DOMAIN regions |->
                    IF colons(k) = {} THEN ParseFail
                    ELSE ParseValue(s, x, regions[k][1], First(colons(k)) - 1)]
        vals == [k \in DOMAIN regions |->
                    IF colons(k) = {} THEN ParseFail
                    ELSE ParseValue(s, x, First(colons(k)) + 1, regions[k][2])]
        names == {keys[k].val.v : k \in DOMAIN regions}
    IN  IF ink = {} THEN ParseFail
        ELSE CASE x[a] = "Q" ->
                    IF b > a /\ x[b] = "Q" /\ \A i \in (a + 1)..(b - 1) : x[i] # "Q"
                    THEN Parsed(JStr(SubSeq(s, a + 1, b - 1)))
                    ELSE ParseFail
               [] x[a] = "null" /\ a = b -> Parsed(JNull)
               [] x[a] = "7" /\ a = b -> Parsed(JNum(7))
               [] x[a] = "0" /\ a = b -> Parsed(JNum(0))
               [] x[a] = "{" /\ b > a /\ x[b] = "}" ->
                    IF blank THEN Parsed(JObj(EmptyFcn))
                    ELSE IF \A k \in DOMAIN regions :
                                keys[k].ok /\ keys[k].val.t = "str" /\ vals[k].ok
                         THEN Parsed(JObj([n \in names |->
                                vals[Last({k \in DOMAIN regions : keys[k].val.v = n})].val]))
                         ELSE ParseFail
               [] x[a] = "[" /\ b > a /\ x[b] = "]" ->
                    IF blank THEN Parsed(JList(<<>>))
                    ELSE IF \A k \in DOMAIN regions : items[k].ok
                         THEN Parsed(JList([k \in DOMAIN regions |-> items[k].val]))
                         ELSE ParseFail
               [] OTHER -> ParseFail

\* json.loads(s): [exc |-> TRUE] is the JSONDecodeError.
JsonLoads(s) ==
    LET r == ParseValue(s, Lexemes(s), 1, Len(s))
    IN  IF r.ok THEN [exc |-> FALSE, val |-> r.val] ELSE [exc |-> TRUE, val |-> JNone]

\* The replies of the provider

MetaKeys ==
    <<"title", "author", "publication_date", "publisher", "source_language",
      "genre", "topic">>

\* The text of a JSON object of string members, as a provider writes it.
RECURSIVE RenderMembers(_, _)
RenderMembers(keys, vals) ==
    IF keys = <<>> THEN <<>>
    ELSE <<"Q", Head(keys), "Q", ":", "ws", "Q">> \o vals[Head(keys)] \o <<"Q">>
         \o (IF Len(keys) > 1 THEN <<",", "ws">> ELSE <<>>)
         \o RenderMembers(Tail(keys), vals)

RenderObject(keys, vals) == <<"{">> \o RenderMembers(keys, vals) \o <<"}">>

Fenced(s) == <<"FENCE", "json", "ws">> \o s \o <<"ws", "FENCE">>

\* The JSON object that RenderObject(keys, vals) is the text of.
ObjectOf(keys, vals) == JObj([k \in {Word(keys[i]) : i \in DOMAIN keys} |-> JStr(vals[k[1]])])

\* Metadata objects a provider may answer with: the seven keys, string
\* values; a value may quote a code fence.
ProviderObjects ==
    {[k \in Range(MetaKeys) |-> IF k = "publication_date" THEN <<"1949-01-01">> ELSE <<"a">>],
     [k \in Range(MetaKeys) |-> IF k = "title" THEN <<"Human", "Action">> ELSE <<"Unknown">>],
     [k \in Range(MetaKeys) |-> IF k = "topic" THEN <<"use", "FENCE", "blocks">> ELSE <<"a">>],
     [k \in Range(MetaKeys) |-> IF k = "title" THEN <<"FENCE", "json", "a">> ELSE <<"a">>]}

Reply(content) == [content |-> content, kind |-> "reply"]

\* No outcome: the provider was not called.
NoReply == [content |-> <<>>, kind |-> ""]

\* Replies that are no JSON text, also once the fences are taken off.
MalformedContents ==
    {<<>>, <<"Sorry">>, <<"{", "Q", "title", "Q", ":", "Q", "a">>,
     Fenced(<<"{", "Q", "title", "Q", ":", "Q", "a">>),
     <<"Here", "ws">> \o RenderObject(MetaKeys, [k \in Range(MetaKeys) |-> <<"a">>])}

\* Replies that are JSON text, but not of an object of the seven string
\* members.
OffSchemaContents ==
    {<<"[", "]">>, <<"7">>, <<"null">>, <<"Q", "a", "Q">>,
     <<"[", "Q", "a", "Q", ",", "7", "]">>,
     RenderObject(<<"title">>, [k \in {"title"} |-> <<"a">>]),
     RenderObject(MetaKeys \o <<"isbn">>, [k \in Range(MetaKeys) \cup {"isbn"} |-> <<"a">>]),
     <<"{", "Q", "title", "Q", ":", "7", "}">>}

ProviderOutcomes ==
    {[content |-> <<>>, kind |-> "raise"], [content |-> <<>>, kind |-> "no content"]}
    \cup {Reply(RenderObject(MetaKeys, o)) : o \in ProviderObjects}
    \cup {Reply(Fenced(RenderObject(MetaKeys, o))) : o \in ProviderObjects}
    \cup {Reply(c) : c \in MalformedContents \cup OffSchemaContents}

BasicOutcomes ==
    {[content |-> <<>>, kind |-> "raise"], Reply(<<"Sorry">>),
     Reply(Fenced(RenderObject(MetaKeys, [k \in Range(MetaKeys) |->
            IF k = "publication_date" THEN <<"1949-01-01">> ELSE <<"a">>])))}

\* What lines 104 to 106 make of each content a provider may reply with:
\* the fences are stripped and the rest is parsed.
ParsedReply ==
    [c \in {p.content : p \in ProviderOutcomes \cup BasicOutcomes} |->
        JsonLoads(StripFences(c))]

\* The except clause of the engine: a reply that does not parse gives the
\* record of "Unknown" values, as every other exception of the try block.
OrUnknown(j) == IF j.exc THEN UnknownMetadata ELSE j.val

\* (The same with no except clause for the parse error.)
Escaping(j, prompt) ==
    IF j.exc
    THEN [raised |-> TRUE, metadata |-> JNone, called |-> TRUE, prompt |-> prompt]
    ELSE [raised |-> FALSE, metadata |-> j.val, called |-> TRUE, prompt |-> prompt]

\* (An engine whose except clause misses the parse error; used to test the
\* fallback claim.)
extract_metadata_parse_error_escapes(text, file_name, additional_info, prov) ==
    LET p == BuildPrompt(text, file_name, additional_info)
    IN  IF p.exc
        THEN [raised |-> TRUE, metadata |-> JNone, called |-> FALSE, prompt |-> NoPrompt]
        ELSE IF prov.kind = "reply"
             THEN Escaping(ParsedReply[prov.content], p.val)
             ELSE [raised |-> FALSE, metadata |-> UnknownMetadata, called |-> TRUE,
                   prompt |-> p.val]

\* What the provider does with one call: it raises (network error, timeout,
\* API error), or replies with a message content, or with no content (None).
\* The prompt is built first, outside the try block; the provider call, the
\* fence stripping and the parse are inside it.  The result tells whether an
\* exception left the function, what it returned, and what the provider saw.
extract_metadata_from_text(text, file_name, additional_info, prov) ==
    LET p == BuildPrompt(text, file_name, additional_info)
    IN  IF p.exc
        THEN [raised |-> TRUE, metadata |-> JNone, called |-> FALSE, prompt |-> NoPrompt]
        ELSE [raised |-> FALSE,
              metadata |-> IF prov.kind # "reply" THEN UnknownMetadata
                           ELSE OrUnknown(ParsedReply[prov.content]),
              called |-> TRUE,
              prompt |-> p.val]

\* ------------------------------------------------------------------------
\* The content table
\* ------------------------------------------------------------------------

NoRow == [present |-> FALSE, cols |-> EmptyFcn]

SqlDate(y, m, d) == [t |-> "date", v |-> <<y, m, d>>]

SqlDateTime(y, m, d, hh, mi, ss) == [t |-> "datetime", v |-> <<y, m, d, hh, mi, ss>>]

\* A row of the content table.  The four NOT NULL columns always hold a
\* value; upload_date is filled by the ORM default only when the ORM writes
\* the row, so a row written by another process may hold NULL there; the
\* metadata columns are filled together once extraction has run.
Content(id, uploaded, described) ==
    [present |-> TRUE,
     cols |->
        [file_name |-> JStr(Word("book.pdf")),
         id |-> JNum(id),
         user_id |-> JNum(7),
         file_type |-> JStr(Word("pdf")),
         upload_date |-> IF uploaded THEN SqlDateTime(2024, 11, 5, 9, 30, 0) ELSE JNull,
         file_size |-> JNum(7),
         s3_key |-> IF described THEN JStr(Word("key")) ELSE JNull,
         chunk_count |-> IF described THEN JNum(0) ELSE JNull,
         custom_prompt |-> JNull,
         title |-> IF described THEN JStr(Word("Human Action")) ELSE JNull,
         author |-> IF described THEN JStr(Word("Mises")) ELSE JNull,
         publication_date |-> IF described THEN SqlDate(1949, 1, 1) ELSE JNull,
         publisher |-> IF described THEN JStr(Word("Yale")) ELSE JNull,
         source_language |-> IF described THEN JStr(Word("English")) ELSE JNull,
         genre |-> IF described THEN JStr(Word("Treatise")) ELSE JNull,
         topic |-> IF described THEN JStr(Word("Economics")) ELSE JNull]]

DigitLex == <<"0", "1", "2", "3", "4", "5", "6", "7", "8", "9">>

Pad2(n) == <<DigitLex[((n \div 10) % 10) + 1], DigitLex[(n % 10) + 1]>>

Pad4(n) == Pad2(n \div 100) \o Pad2(n % 100)

\* date.isoformat() and datetime.isoformat(); calling it on None (a NULL
\* column) raises an AttributeError.
IsoFormat(x) ==
    CASE x.t = "date" ->
            [exc |-> FALSE,
             val |-> JStr(Pad4(x.v[1]) \o <<"-">> \o Pad2(x.v[2]) \o <<"-">> \o Pad2(x.v[3]))]
      [] x.t = "datetime" ->
            [exc |-> FALSE,
             val |-> JStr(Pad4(x.v[1]) \o <<"-">> \o Pad2(x.v[2]) \o <<"-">> \o Pad2(x.v[3])
                          \o <<"T">> \o Pad2(x.v[4]) \o <<":">> \o Pad2(x.v[5])
                          \o <<":">> \o Pad2(x.v[6]))]
      [] OTHER -> [exc |-> TRUE, val |-> JNone]

\* ------------------------------------------------------------------------
\* The HTTP layer
\* ------------------------------------------------------------------------

\* The shared secret the service is configured with.
API_KEY == "secret"

\* Paths are strings of lexemes too.
ExtractPath == <<"/", "api", "/", "metadata", "/", "extract">>

\* The id of the path is held apart, in the request's content_id.
ContentPath == <<"/", "api", "/", "content", "/", "<int>", "/", "metadata">>

DocsPath == <<"/", "docs">>

SwaggerPath == <<"/", "swagger", ".json">>

StartsWith(s, prefix) == Len(s) >= Len(prefix) /\ SubSeq(s, 1, Len(prefix)) = prefix

Response(status, body) == [status |-> status, body |-> body]

\* jsonify({'error': msg}), and the body api.abort(code, msg) produces.
ErrorBody(msg) == JObj(Word("error") :> JStr(Word(msg)))

MessageBody(msg) == JObj(Word("message") :> JStr(Word(msg)))

\* The reply of a request that went on to its handler.
Proceed == Response(0, JNone)

\* (A hook that only asks for the header; used to test the gate claim.)
log_request_info_any_key(path, header) ==
    IF StartsWith(path, <<"/", "docs">>) \/ StartsWith(path, <<"/", "swagger">>)
    THEN Proceed
    ELSE IF ~header.present
         THEN Response(401, ErrorBody("No X-API-KEY"))
         ELSE Proceed

\* (A hook that answers a wrong key with 403; used to test the claim on the
\* two 401 responses.)
log_request_info_forbidden(path, header) ==
    IF StartsWith(path, <<"/", "docs">>) \/ StartsWith(path, <<"/", "swagger">>)
    THEN Proceed
    ELSE IF ~header.present
         THEN Response(401, ErrorBody("No X-API-KEY"))
         ELSE IF header.value # API_KEY
              THEN Response(403, ErrorBody("Invalid X-API-KEY"))
              ELSE Proceed

\* The before_request hook.  A request on a documentation path goes on
\* unchecked; any other needs the X-API-KEY header, equal to the key.
\* The header is [present, value].
log_request_info(path, header) ==
    IF StartsWith(path, <<"/", "docs">>) \/ StartsWith(path, <<"/", "swagger">>)
    THEN Proceed
    ELSE IF ~header.present
         THEN Response(401, ErrorBody("No X-API-KEY"))
         ELSE IF header.value # API_KEY
              THEN Response(401, ErrorBody("Invalid X-API-KEY"))
              ELSE Proceed

NoCall == [called |-> FALSE, prompt |-> NoPrompt]

\* What Content.query.get did: not called, failed, or returned a row or None.
NoLookup == [queried |-> FALSE, failed |-> FALSE, row |-> NoRow]

\* The result of a handler: its response and what it did on the way: the
\* provider call, the store lookup, and how the extraction engine ended
\* ("" when it was not run, "returned", "raised").
Outcome(resp, call, lookup, engine) ==
    [resp |-> resp, call |-> call, lookup |-> lookup, engine |-> engine]

\* The try block of MetadataExtractResource.post and its except clause: the
\* metadata the engine returned r with is answered 200, an exception that
\* left the engine 500.
post_try_block(r) ==
    IF r.raised
    THEN Outcome(Response(500, MessageBody("Internal server error")),
                 [called |-> r.called, prompt |-> r.prompt], NoLookup, "raised")
    ELSE Outcome(Response(200,
                          JObj((Word("message") :> JStr(Word("Metadata extracted successfully")))
                               @@ (Word("metadata") :> r.metadata))),
                 [called |-> r.called, prompt |-> r.prompt], NoLookup, "returned")

\* MetadataExtractResource.post.  The test of the body stands outside the
\* try block: its abort(400) reaches the client, and a TypeError raised by
\* the test itself is answered 500 by the framework.  Inside the try block
\* every exception is answered 500.
MetadataExtractResource_post(body, prov) ==
    LET has == PyIn(Word("text"), body)
        text == PyItem(body, Word("text"))
        r == extract_metadata_from_text(text.val, PyGet(body, Word("file_name")),
                                        PyGet(body, Word("additional_info")), prov)
    IN  IF Falsy(body)
        THEN Outcome(Response(400, MessageBody("No text provided")), NoCall, NoLookup, "")
        ELSE IF has.exc
             THEN Outcome(Response(500, MessageBody("Internal Server Error")), NoCall, NoLookup, "")
        ELSE IF ~has.val
             THEN Outcome(Response(400, MessageBody("No text provided")), NoCall, NoLookup, "")
        ELSE IF text.exc
             THEN Outcome(Response(500, MessageBody("Internal server error")), NoCall, NoLookup, "")
        ELSE post_try_block(r)

\* The projection of a row the get handler builds.
Projection(c) ==
    JObj((Word("id") :> c.id) @@ (Word("user_id") :> c.user_id)
         @@ (Word("file_name") :> c.file_name) @@ (Word("file_type") :> c.file_type)
         @@ (Word("upload_date") :> IsoFormat(c.upload_date).val)
         @@ (Word("file_size") :> c.file_size) @@ (Word("s3_key") :> c.s3_key)
         @@ (Word("chunk_count") :> c.chunk_count) @@ (Word("title") :> c.title)
         @@ (Word("author") :> c.author)
         @@ (Word("publication_date") :>
                IF Falsy(c.publication_date) THEN JNull
                ELSE IsoFormat(c.publication_date).val)
         @@ (Word("publisher") :> c.publisher)
         @@ (Word("source_language") :> c.source_language)
         @@ (Word("genre") :> c.genre) @@ (Word("topic") :> c.topic))

\* The try block of ContentMetadataResource.get: [exc, resp, why].  The
\* failure of the query, the HTTPException that abort(404) raises, and the
\* AttributeError of isoformat on a NULL upload_date all leave the block as
\* exceptions.  row is what Content.query.get found.
get_try_block(row, db_ok) ==
    IF ~db_ok THEN [exc |-> TRUE, resp |-> Proceed, why |-> "query failed"]
    ELSE IF ~row.present THEN [exc |-> TRUE, resp |-> Proceed, why |-> "abort 404"]
    ELSE IF IsoFormat(row.cols.upload_date).exc
         THEN [exc |-> TRUE, resp |-> Proceed, why |-> "AttributeError"]
    ELSE [exc |-> FALSE,
          resp |-> Response(200,
                     JObj((Word("message") :> JStr(Word("Metadata retrieved successfully")))
                          @@ (Word("metadata") :> Projection(row.cols)))),
          why |-> ""]

\* ContentMetadataResource.get: the except clause catches Exception, hence
\* every exception of the try block, and answers 500.
ContentMetadataResource_get(row, db_ok) ==
    LET b == get_try_block(row, db_ok)
        lookup == [queried |-> TRUE, failed |-> ~db_ok, row |-> IF db_ok THEN row ELSE NoRow]
    IN  IF b.exc
        THEN Outcome(Response(500, MessageBody("Internal server error")), NoCall, lookup, "")
        ELSE Outcome(b.resp, NoCall, lookup, "")

\* ------------------------------------------------------------------------
\* What the clients, the provider and the ingestion process may do
\* ------------------------------------------------------------------------

NoHeader == [present |-> FALSE, value |-> ""]

Header(v) == [present |-> TRUE, value |-> v]

Headers == {NoHeader, Header("secret"), Header("Secret")}

\* A text of n characters, each its own position.
Text(n) == SubSeq([i \in 1..n |-> i], 1, n)

TextLengths == {0, 1, TextLimit - 1} \cup {TextLimit + k : k \in 0..MaxOver}

\* The request bodies: request.json is any JSON value, or None.
Bodies ==
    {JNone, JObj(EmptyFcn), JList(<<>>), JNum(7),
     JList(<<JStr(Word("text"))>>), JStr(<<"some", "text">>),
     JObj(Word("file_name") :> JStr(Word("a.txt")))}
    \cup {JObj(Word("text") :> JStr(Text(n))) : n \in TextLengths}
    \cup {JObj((Word("text") :> JStr(Text(n))) @@ (Word("file_name") :> JStr(Word("a.txt")))
               @@ (Word("additional_info") :> JStr(Word("a book"))))
            : n \in {1, TextLimit + 1}}
    \cup {JObj(Word("text") :> x)
            : x \in {JNull, JNum(7), JObj(EmptyFcn), JList(<<JStr(Word("a"))>>)}}

Request(method, path, content_id, header, body) ==
    [body |-> body, path |-> path, header |-> header, method |-> method,
     content_id |-> content_id]

NoRequest == Request("", <<>>, 0, NoHeader, JNone)

\* Requests that reach no handler: a method the route does not take (405),
\* or a path with no route (404).  "/docsx" starts with "/docs".
Unrouted ==
    {[status |-> 405, path |-> ExtractPath, method |-> "GET"],
     [status |-> 405, path |-> ContentPath, method |-> "POST"],
     [status |-> 405, path |-> DocsPath, method |-> "POST"],
     [status |-> 404, path |-> <<"/", "docs", "x">>, method |-> "GET"],
     [status |-> 404, path |-> <<"/", "api", "/", "docs">>, method |-> "GET"]}

\* ------------------------------------------------------------------------
\* The state machine
\* ------------------------------------------------------------------------

VARIABLES
    store,      \* the content table: id -> row, or NoRow
    req,        \* the request handled last
    resp,       \* the response it was given
    call,       \* the provider call made for it: [called, prompt, reply]
    lookup,     \* the store lookup made for it: [queried, failed, row]
    engine,     \* how the extraction engine ended for it: "", "returned", "raised"
    rejected    \* the responses before_request gave so far, with whether the
                \* X-API-KEY header was there

vars == <<store, req, resp, call, lookup, engine, rejected>>

Init ==
    /\ store = [i \in 1..MaxId |-> NoRow]
    /\ req = NoRequest
    /\ resp = Proceed
    /\ call = [called |-> FALSE, prompt |-> NoPrompt, reply |-> NoReply]
    /\ lookup = NoLookup
    /\ engine = ""
    /\ rejected = {}

\* One request from before_request to its response; each action below binds
\* the request r and its outcome o once and writes them to the state.  A response of the
\* hook ends the request; otherwise the handler's outcome is the response.
Served(gate, out) == IF gate.status = 0 THEN out ELSE Outcome(gate, NoCall, NoLookup, "")

\* The responses of before_request so far, with the one to request r added.
Rejected(r, gate) ==
    IF gate.status # 0
    THEN rejected \cup {[present |-> r.header.present, resp |-> gate]}
    ELSE rejected

\* The outcomes the provider may give to the request: none when the request
\* makes no call.  Every outcome is tried with the short texts, the three
\* kinds of outcome (an error, a good reply, a bad reply) with the others.
OutcomesFor(header, body) ==
    IF log_request_info(ExtractPath, header).status # 0
       \/ ~MetadataExtractResource_post(body, NoReply).call.called
    THEN {NoReply}
    ELSE IF body.v[Word("text")].t = "str" /\ Len(body.v[Word("text")].v) <= 1
         THEN ProviderOutcomes
         ELSE BasicOutcomes

\* POST /api/metadata/extract
PostExtract ==
    /\ UNCHANGED store
    /\ \E header \in Headers, body \in Bodies :
           \E prov \in OutcomesFor(header, body) :
               \E r \in {Request("POST", ExtractPath, 0, header, body)},
                  o \in {Served(log_request_info(ExtractPath, header),
                                MetadataExtractResource_post(body, prov))} :
                   /\ req' = r
                   /\ resp' = o.resp
                   /\ call' = [called |-> o.call.called, prompt |-> o.call.prompt,
                               reply |-> IF o.call.called THEN prov ELSE NoReply]
                   /\ lookup' = o.lookup
                   /\ engine' = o.engine
                   /\ rejected' = Rejected(r, log_request_info(r.path, r.header))

\* GET /api/content/<id>/metadata
GetContent ==
    /\ UNCHANGED store
    /\ \E header \in Headers, id \in 1..MaxId, db_ok \in BOOLEAN :
           \E r \in {Request("GET", ContentPath, id, header, JNone)},
              o \in {Served(log_request_info(ContentPath, header),
                            ContentMetadataResource_get(store[id], db_ok))} :
               /\ req' = r
               /\ resp' = o.resp
               /\ call' = [called |-> FALSE, prompt |-> NoPrompt, reply |-> NoReply]
               /\ lookup' = o.lookup
               /\ engine' = o.engine
               /\ rejected' = Rejected(r, log_request_info(r.path, r.header))

\* GET /docs and GET /swagger.json: the documentation pages.
GetDocs ==
    /\ UNCHANGED store
    /\ \E header \in Headers, path \in {DocsPath, SwaggerPath} :
           \E r \in {Request("GET", path, 0, header, JNone)},
              o \in {Served(log_request_info(path, header),
                            Outcome(Response(200, JStr(Word("documentation"))), NoCall, NoLookup, ""))} :
               /\ req' = r
               /\ resp' = o.resp
               /\ call' = [called |-> FALSE, prompt |-> NoPrompt, reply |-> NoReply]
               /\ lookup' = o.lookup
               /\ engine' = o.engine
               /\ rejected' = Rejected(r, log_request_info(r.path, r.header))

\* A request no handler takes.
OtherRequest ==
    /\ UNCHANGED store
    /\ \E header \in Headers, u \in Unrouted :
           \E r \in {Request(u.method, u.path, 0, header, JNone)},
              o \in {Served(log_request_info(u.path, header),
                            Outcome(Response(u.status, MessageBody("no handler")), NoCall, NoLookup, ""))} :
               /\ req' = r
               /\ resp' = o.resp
               /\ call' = [called |-> FALSE, prompt |-> NoPrompt, reply |-> NoReply]
               /\ lookup' = o.lookup
               /\ engine' = o.engine
               /\ rejected' = Rejected(r, log_request_info(r.path, r.header))

\* The ingestion process, outside this service, creates a row.
Ingest ==
    \E id \in 1..MaxId, uploaded \in BOOLEAN, described \in BOOLEAN :
        /\ ~store[id].present
        /\ store' = [store EXCEPT ![id] = Content(id, uploaded, described)]
        /\ UNCHANGED <<req, resp, call, lookup, engine, rejected>>

Next == PostExtract \/ GetContent \/ GetDocs \/ OtherRequest \/ Ingest

Spec == Init /\ [][Next]_vars

\* ------------------------------------------------------------------------
\* The properties
\* ------------------------------------------------------------------------

\* The request carries the X-API-KEY header with the configured key.
Authenticated == req.header.present /\ req.header.value = API_KEY

ExtractRequest == req.method = "POST" /\ req.path = ExtractPath

ContentRequest == req.method = "GET" /\ req.path = ContentPath

HasText(body) == body.t = "obj" /\ Word("text") \in DOMAIN body.v

\* The metadata of a 200 response of one of the two handlers.
Metadata == resp.body.v[Word("metadata")]

MetadataKeys == {Word(MetaKeys[i]) : i \in DOMAIN MetaKeys}

IsUnknownRecord(m) ==
    /\ m.t = "obj"
    /\ DOMAIN m.v = MetadataKeys
    /\ \A k \in MetadataKeys : m.v[k].t = "str" /\ m.v[k].v = <<"Unknown">>

\* C1: a get-by-id request with the valid key whose id the store does not
\* hold (the query returned nothing) is answered 404.
C1_NotFoundIs404 ==
    (ContentRequest /\ Authenticated /\ lookup.queried /\ ~lookup.failed
        /\ ~lookup.row.present)
    => resp.status = 404

\* C2: a request on a path that is no documentation path, without the
\* X-API-KEY header or with one that is not the configured key, is answered
\* 401, and neither the provider nor the store is called for it, whatever
\* its body or id.
C2_Unauthorized ==
    (req # NoRequest
        /\ ~(StartsWith(req.path, <<"/", "docs">>) \/ StartsWith(req.path, <<"/", "swagger">>))
        /\ ~Authenticated)
    => (resp.status = 401 /\ ~call.called /\ ~lookup.queried /\ engine = "")

C2_Witness ==
    /\ ExtractRequest
    /\ req.header.present
    /\ req.header.value # API_KEY
    /\ HasText(req.body)
    /\ resp.status = 401

\* C3: an authenticated extract request whose provider call raises, or whose
\* provider reply is no JSON text once the fences are stripped, is answered
\* 200 with the record of the seven keys all "Unknown".
C3_FallbackRecord ==
    (ExtractRequest /\ Authenticated /\ call.called
        /\ (call.reply.kind \in {"raise", "no content"}
            \/ (call.reply.kind = "reply" /\ call.reply.content \in MalformedContents)))
    => (resp.status = 200
        /\ DOMAIN resp.body.v = {Word("message"), Word("metadata")}
        /\ IsUnknownRecord(Metadata))

C3_Witness ==
    /\ ExtractRequest
    /\ Authenticated
    /\ call.called
    /\ call.reply.kind = "reply"
    /\ call.reply.content = Fenced(<<"{", "Q", "title", "Q", ":", "Q", "a">>)
    /\ resp.status = 200

\* C4: an authenticated extract request whose JSON body has no text field
\* (an empty body too) is answered 400, and the provider is not called.
C4_MissingTextIs400 ==
    (ExtractRequest /\ Authenticated /\ ~HasText(req.body))
    => (resp.status = 400 /\ ~call.called)

\* C5: an authenticated get-by-id request whose id the store holds is
\* answered 200 whatever optional columns of the row are NULL: metadata.id
\* is the id asked for, a date column is its ISO text or null, and every
\* other NULL column is null.
C5_FoundIs200 ==
    (ContentRequest /\ Authenticated /\ lookup.queried /\ ~lookup.failed
        /\ lookup.row.present)
    => (/\ resp.status = 200
        /\ Metadata.v[Word("id")].v = <<req.content_id>>
        /\ \A c \in {"upload_date", "publication_date"} :
              IF lookup.row.cols[c].t = "null"
              THEN Metadata.v[Word(c)].t = "null"
              ELSE Metadata.v[Word(c)].t = "str"
        /\ \A c \in {"s3_key", "title", "author", "publisher", "source_language",
                     "genre", "topic"} :
              lookup.row.cols[c].t = "null" => Metadata.v[Word(c)].t = "null")

\* C6: no exception leaves the extraction engine, whatever JSON value the
\* request gave for text: once the handler has read the text field of the
\* body, the engine returns a record.
C6_EngineNeverRaises ==
    (ExtractRequest /\ Authenticated /\ HasText(req.body))
    => (engine = "returned" /\ resp.status = 200)

\* C7: in every 200 response of the extract handler, metadata is an object
\* of exactly the seven keys, each value a string.
C7_MetadataWellFormed ==
    (ExtractRequest /\ resp.status = 200)
    => (/\ Metadata.t = "obj"
        /\ DOMAIN Metadata.v = MetadataKeys
        /\ \A k \in MetadataKeys : Metadata.v[k].t = "str")

\* C8, as claimed: the response to a request without the header and the
\* response to a request with a wrong key have the same status and the same
\* body.
C8_SameResponse ==
    \A a \in rejected, b \in rejected :
        (~a.present /\ b.present)
        => (a.resp.status = b.resp.status /\ a.resp.body = b.resp.body)

\* C8, amended: the two responses have the same status, 401; the body of
\* the first is {error: No X-API-KEY}, of the second {error: Invalid
\* X-API-KEY}, whatever the path, the method and the body of the request.
C8_SameStatus ==
    \A a \in rejected, b \in rejected :
        (~a.present /\ b.present)
        => (/\ a.resp.status = 401
            /\ b.resp.status = 401
            /\ DOMAIN a.resp.body.v = {Word("error")}
            /\ DOMAIN b.resp.body.v = {Word("error")}
            /\ a.resp.body.v[Word("error")].v = <<"No X-API-KEY">>
            /\ b.resp.body.v[Word("error")].v = <<"Invalid X-API-KEY">>)

C8_Witness ==
    \E a \in rejected, b \in rejected :
        /\ ~a.present
        /\ b.present
        /\ a.resp.status = 401
        /\ b.resp.status = 401

\* C9: the user message of an extraction call whose text is a string holds
\* the first 3000 characters of the text and none after them; a text of at
\* most 3000 characters is there whole.
C9_First3000 ==
    (ExtractRequest /\ call.called /\ req.body.v[Word("text")].t = "str")
    => LET t == req.body.v[Word("text")].v
           p == call.prompt.text.v
       IN  /\ call.prompt.text.t = "str"
           /\ Len(p) = Min(Len(t), 3000)
           /\ \A i \in 1..Len(p) : p[i] = t[i]
           /\ \A i \in 3001..Len(t) : t[i] \notin Range(p)

C9_Witness ==
    /\ ExtractRequest
    /\ call.called
    /\ req.body.v[Word("text")].t = "str"
    /\ Len(req.body.v[Word("text")].v) > 3000
    /\ Len(call.prompt.text.v) = 3000

\* The metadata objects of ProviderObjects, each with its two texts: bare,
\* and inside a code fence.
GoodReplies ==
    {[contents |-> {RenderObject(MetaKeys, o), Fenced(RenderObject(MetaKeys, o))},
      object |-> ObjectOf(MetaKeys, o)] : o \in ProviderObjects}

\* C10: when the provider's reply is the text of a JSON object of the seven
\* keys, bare or inside a code fence, the response is 200 with the body
\* {message, metadata}, and metadata is that object, no value altered.
C10_ReplyUnchanged ==
    \A g \in GoodReplies :
        (ExtractRequest /\ Authenticated /\ call.called /\ call.reply.kind = "reply"
            /\ call.reply.content \in g.contents)
        => (/\ resp.status = 200
            /\ DOMAIN resp.body.v = {Word("message"), Word("metadata")}
            /\ Metadata.t = "obj"
            /\ Metadata.v = g.object.v)

====
